---- MODULE Spec2Model ----
(***************************************************************************)
(* Model of vissl/models/heads/mlp.py: the MLP head.                       *)
(*                                                                         *)
(* MLP.__init__ builds an ordered stack of torch layers from `dims` and    *)
(* four flags; MLP.forward squeezes the input and runs the stack.          *)
(*                                                                         *)
(* A tensor is modelled by its shape (a sequence of axis sizes) and by a   *)
(* symbolic value: the sequence of value-changing operations applied to    *)
(* the caller's data.  Two tensors with the same shape and the same        *)
(* symbolic value hold the same numbers.                                   *)
(***************************************************************************)
EXTENDS Integers, Sequences, FiniteSets, TLC

\* ------------------------------------------------------------------ bounds
MaxLen == 3         \* longest dims sequence tried
MaxWidth == 2       \* layer widths and input feature widths range over 1..MaxWidth
MaxBatch == 2       \* batch sizes N range over 1..MaxBatch
MaxTracked == 2     \* cap on a normalization layer's num_batches_tracked

Widths == 1..MaxWidth

RECURSIVE SeqsOfLen(_)
SeqsOfLen(n) ==
    IF n = 0 THEN {<<>>}
    ELSE {Append(s, w) : s \in SeqsOfLen(n - 1), w \in Widths}

DimsSet == UNION {SeqsOfLen(n) : n \in 0..MaxLen}

\* model_config.HEAD: the two fields the block may read (floats, by identity)
ConfigSet == { [BATCHNORM_EPS |-> 11, BATCHNORM_MOMENTUM |-> 21],
               [BATCHNORM_EPS |-> 12, BATCHNORM_MOMENTUM |-> 22] }

\* the constructor's arguments
ArgsSet == [ model_config : ConfigSet, dims : DimsSet, use_bn : BOOLEAN,
             use_relu : BOOLEAN, use_dropout : BOOLEAN, use_bias : BOOLEAN ]

\* inputs of forward: 2D (N, C) and 4D (N, C, 1, 1)
InputShapes == { <<n, c>> : n \in 1..MaxBatch, c \in Widths }
               \cup { <<n, c, 1, 1>> : n \in 1..MaxBatch, c \in Widths }

\* the random masks a Dropout layer may draw in training mode
Masks == {1, 2}

Last(s) == s[Len(s)]
ButLast(s) == SubSeq(s, 1, Len(s) - 1)

\* ------------------------------------------------------- layer constructors
\* One record shape for the four layer kinds; a field a kind does not have is
\* 0 / FALSE.  `stage` identifies the layer's own parameters (the weights of
\* the Linear, the affine parameters and running statistics of the BatchNorm
\* created in that iteration of the loop).
Linear(in_features, out_features, bias, stage) ==
    [ kind |-> "Linear", in_features |-> in_features, out_features |-> out_features,
      bias |-> bias, num_features |-> 0, eps |-> 0, momentum |-> 0,
      inplace |-> FALSE, stage |-> stage ]

BatchNorm1d(num_features, eps, momentum, stage) ==
    [ kind |-> "BatchNorm1d", in_features |-> 0, out_features |-> 0,
      bias |-> FALSE, num_features |-> num_features, eps |-> eps,
      momentum |-> momentum, inplace |-> FALSE, stage |-> stage ]

ReLU(stage) ==
    [ kind |-> "ReLU", in_features |-> 0, out_features |-> 0,
      bias |-> FALSE, num_features |-> 0, eps |-> 0, momentum |-> 0,
      inplace |-> TRUE, stage |-> stage ]

Dropout(stage) ==
    [ kind |-> "Dropout", in_features |-> 0, out_features |-> 0,
      bias |-> FALSE, num_features |-> 0, eps |-> 0, momentum |-> 0,
      inplace |-> FALSE, stage |-> stage ]

\* ------------------------------------------------------------ construction
\* One iteration of `for dim in dims[1:]` (lines 50-64).  st carries the
\* loop's locals: layers, last_dim, the config fields read so far, and the
\* number of the iteration.
\* mutant: the Dropout layer is appended before the ReLU
LoopBody_DropoutFirst(st, dim, a) ==
    LET k  == st.stage + 1
        l1 == Append(st.layers, Linear(st.last_dim, dim, a.use_bias, k))
        l2 == IF a.use_bn
              THEN Append(l1, BatchNorm1d(dim, a.model_config.BATCHNORM_EPS,
                                          a.model_config.BATCHNORM_MOMENTUM, k))
              ELSE l1
        r2 == IF a.use_bn
              THEN st.reads \cup {"BATCHNORM_EPS", "BATCHNORM_MOMENTUM"}
              ELSE st.reads
        l3 == IF a.use_dropout THEN Append(l2, Dropout(k)) ELSE l2
        l4 == IF a.use_relu THEN Append(l3, ReLU(k)) ELSE l3
        ld == IF a.use_relu THEN dim ELSE st.last_dim
    IN  [ layers |-> l4, last_dim |-> ld, reads |-> r2, stage |-> k ]

\* mutant: last_dim advances in every iteration, outside the ReLU branch
LoopBody_AlwaysAdvance(st, dim, a) ==
    LET k  == st.stage + 1
        l1 == Append(st.layers, Linear(st.last_dim, dim, a.use_bias, k))
        l2 == IF a.use_bn
              THEN Append(l1, BatchNorm1d(dim, a.model_config.BATCHNORM_EPS,
                                          a.model_config.BATCHNORM_MOMENTUM, k))
              ELSE l1
        r2 == IF a.use_bn
              THEN st.reads \cup {"BATCHNORM_EPS", "BATCHNORM_MOMENTUM"}
              ELSE st.reads
        l3 == IF a.use_relu THEN Append(l2, ReLU(k)) ELSE l2
        l4 == IF a.use_dropout THEN Append(l3, Dropout(k)) ELSE l3
    IN  [ layers |-> l4, last_dim |-> dim, reads |-> r2, stage |-> k ]

\* mutant: the BatchNorm1d is sized by the Linear's input width
LoopBody_BnOverLastDim(st, dim, a) ==
    LET k  == st.stage + 1
        l1 == Append(st.layers, Linear(st.last_dim, dim, a.use_bias, k))
        l2 == IF a.use_bn
              THEN Append(l1, BatchNorm1d(st.last_dim, a.model_config.BATCHNORM_EPS,
                                          a.model_config.BATCHNORM_MOMENTUM, k))
              ELSE l1
        r2 == IF a.use_bn
              THEN st.reads \cup {"BATCHNORM_EPS", "BATCHNORM_MOMENTUM"}
              ELSE st.reads
        l3 == IF a.use_relu THEN Append(l2, ReLU(k)) ELSE l2
        ld == IF a.use_relu THEN dim ELSE st.last_dim
        l4 == IF a.use_dropout THEN Append(l3, Dropout(k)) ELSE l3
    IN  [ layers |-> l4, last_dim |-> ld, reads |-> r2, stage |-> k ]

LoopBody(st, dim, a) ==
    LET k  == st.stage + 1
        l1 == Append(st.layers, Linear(st.last_dim, dim, a.use_bias, k))
        l2 == IF a.use_bn
              THEN Append(l1, BatchNorm1d(dim, a.model_config.BATCHNORM_EPS,
                                          a.model_config.BATCHNORM_MOMENTUM, k))
              ELSE l1
        r2 == IF a.use_bn
              THEN st.reads \cup {"BATCHNORM_EPS", "BATCHNORM_MOMENTUM"}
              ELSE st.reads
        l3 == IF a.use_relu THEN Append(l2, ReLU(k)) ELSE l2
        ld == IF a.use_relu THEN dim ELSE st.last_dim
        l4 == IF a.use_dropout THEN Append(l3, Dropout(k)) ELSE l3
    IN  [ layers |-> l4, last_dim |-> ld, reads |-> r2, stage |-> k ]

RECURSIVE Loop(_, _, _)
Loop(st, rest, a) ==
    IF rest = <<>> THEN st
    ELSE Loop(LoopBody(st, Head(rest), a), Tail(rest), a)

\* mutant: an empty dims is accepted and gives an empty stack
MLP_init_Lenient(a) ==
    IF Len(a.dims) = 0
    THEN [ status |-> "built", error |-> "", clf |-> <<>>, reads |-> {} ]
    ELSE LET st0 == [ layers |-> <<>>, last_dim |-> a.dims[1], reads |-> {},
                      stage |-> 0 ]
             fin == Loop(st0, Tail(a.dims), a)
         IN  [ status |-> "built", error |-> "", clf |-> fin.layers,
               reads |-> fin.reads ]

\* MLP.__init__ (lines 47-65): the result of constructing with arguments a.
\* dims[0] on an empty sequence raises IndexError before any layer is built
\* and before self.clf is assigned.
MLP_init(a) ==
    IF Len(a.dims) = 0
    THEN [ status |-> "raised", error |-> "IndexError", clf |-> <<>>, reads |-> {} ]
    ELSE LET st0 == [ layers |-> <<>>, last_dim |-> a.dims[1], reads |-> {},
                      stage |-> 0 ]
             fin == Loop(st0, Tail(a.dims), a)
         IN  [ status |-> "built", error |-> "", clf |-> fin.layers,
               reads |-> fin.reads ]

\* ------------------------------------------------------------------ tensors
NotOne(d) == d # 1

\* mutant: only the trailing axes of size 1 are dropped
RECURSIVE Squeeze_TrailingOnly(_)
Squeeze_TrailingOnly(shape) ==
    IF shape # <<>> /\ shape[Len(shape)] = 1
    THEN Squeeze_TrailingOnly(SubSeq(shape, 1, Len(shape) - 1))
    ELSE shape

\* torch.squeeze(batch) (line 74): drops every axis of size 1
Squeeze(shape) == SelectSeq(shape, NotOne)

Tensor(shape, val) == [ shape |-> shape, val |-> val ]

\* one value-changing operation of a symbolic value
Op(name, stage, arg) == [ op |-> name, stage |-> stage, arg |-> arg ]

\* the outcome of one layer call: a tensor, or a raised error
Ok(t, running) == [ raised |-> "", t |-> t, running |-> running ]
Raise(err, t, running) == [ raised |-> err, t |-> t, running |-> running ]

\* mutant: the input width is not checked
ApplyLinear_NoCheck(l, t, running) ==
    IF Len(t.shape) = 0
    THEN Raise("RuntimeError", t, running)
    ELSE Ok(Tensor(Append(ButLast(t.shape), l.out_features),
                   Append(t.val, Op("linear", l.stage, 0))), running)

\* nn.Linear.forward: needs an input of rank >= 1 whose last axis has size
\* in_features; maps the last axis to out_features.
ApplyLinear(l, t, running) ==
    IF Len(t.shape) = 0 \/ Last(t.shape) # l.in_features
    THEN Raise("RuntimeError", t, running)
    ELSE Ok(Tensor(Append(ButLast(t.shape), l.out_features),
                   Append(t.val, Op("linear", l.stage, 0))), running)

\* mutant: the running statistics are updated in evaluation mode too
ApplyBatchNorm1d_AlwaysUpdate(l, t, mode, running) ==
    IF Len(t.shape) \notin {2, 3} \/ t.shape[2] # l.num_features
    THEN Raise("ValueError", t, running)
    ELSE Ok(Tensor(t.shape, Append(t.val, Op("bn_batch", l.stage, 0))),
            [running EXCEPT ![l.stage] = @ + 1])

\* nn.BatchNorm1d.forward: _check_input_dim wants rank 2 or 3 (ValueError).
\* In training mode num_batches_tracked is bumped, then F.batch_norm rejects
\* a single value per channel (ValueError) and a channel count other than
\* num_features (RuntimeError), normalizes with the batch statistics and
\* updates the running ones.  In evaluation mode it normalizes with the
\* running statistics and updates nothing.
ApplyBatchNorm1d(l, t, mode, running) ==
    IF Len(t.shape) \notin {2, 3}
    THEN Raise("ValueError", t, running)
    ELSE LET bumped   == [running EXCEPT ![l.stage] = @ + 1]
             perChan  == IF Len(t.shape) = 2 THEN t.shape[1]
                         ELSE t.shape[1] * t.shape[3]
         IN  IF mode
             THEN IF perChan = 1
                  THEN Raise("ValueError", t, bumped)
                  ELSE IF t.shape[2] # l.num_features
                  THEN Raise("RuntimeError", t, bumped)
                  ELSE Ok(Tensor(t.shape, Append(t.val, Op("bn_batch", l.stage, 0))),
                          bumped)
             ELSE IF t.shape[2] # l.num_features
                  THEN Raise("RuntimeError", t, running)
                  ELSE Ok(Tensor(t.shape,
                                 Append(t.val, Op("bn_running", l.stage,
                                                  running[l.stage]))),
                          running)

\* nn.ReLU.forward: elementwise max(0, x), any shape
ApplyReLU(l, t, running) ==
    Ok(Tensor(t.shape, Append(t.val, Op("relu", 0, 0))), running)

\* mutant: the mask is applied whatever the mode
ApplyDropout_AlwaysMask(l, t, mode, mask, running) ==
    Ok(Tensor(t.shape, Append(t.val, Op("mask", l.stage, mask))), running)

\* nn.Dropout.forward: a random mask in training mode, the identity in
\* evaluation mode
ApplyDropout(l, t, mode, mask, running) ==
    IF mode
    THEN Ok(Tensor(t.shape, Append(t.val, Op("mask", l.stage, mask))), running)
    ELSE Ok(t, running)

ApplyLayer(l, t, mode, mask, running) ==
    CASE l.kind = "Linear"      -> ApplyLinear(l, t, running)
      [] l.kind = "BatchNorm1d" -> ApplyBatchNorm1d(l, t, mode, running)
      [] l.kind = "ReLU"        -> ApplyReLU(l, t, running)
      [] l.kind = "Dropout"     -> ApplyDropout(l, t, mode, mask, running)

\* nn.Sequential.forward over self.clf (line 75): the layers in order, each
\* fed the previous one's output; the first error ends the call.  `applied`
\* counts the layers that returned.
RECURSIVE Sequential(_, _, _, _, _, _)
Sequential(stack, i, t, mode, mask, running) ==
    IF i > Len(stack)
    THEN [ status |-> "ok", error |-> "", raised_by |-> 0, applied |-> i - 1,
           shape |-> t.shape, val |-> t.val, running |-> running ]
    ELSE LET r == ApplyLayer(stack[i], t, mode, mask, running)
         IN  IF r.raised # ""
             THEN [ status |-> "error", error |-> r.raised, raised_by |-> i,
                    applied |-> i - 1, shape |-> <<>>, val |-> <<>>,
                    running |-> r.running ]
             ELSE Sequential(stack, i + 1, r.t, mode, mask, r.running)

\* MLP.forward (lines 74-76) on a stack: squeeze, run the stack, return
ForwardOn(stack, b, mode, mask, running) ==
    Sequential(stack, 1, Tensor(Squeeze(b.shape), b.val), mode, mask, running)

\* -------------------------------------------------------------------- state
VARIABLES
    args,        \* the arguments MLP(...) is called with
    pc,          \* "new": not constructed; "built"; "raised": __init__ raised
    ctor_error,  \* the exception __init__ raised, "" if none
    clf,         \* self.clf: the layer stack
    cfg_reads,   \* the fields of model_config.HEAD that __init__ read
    training,    \* nn.Module.training of the block and of its layers
    running,     \* per stage: num_batches_tracked of that stage's BatchNorm1d
    batch,       \* the argument of the latest forward call
    out          \* the outcome of the latest forward call

vars == << args, pc, ctor_error, clf, cfg_reads, training, running, batch, out >>

NoBatch == Tensor(<<>>, <<>>)

NoOut == [ status |-> "none", error |-> "", raised_by |-> 0, applied |-> 0,
           shape |-> <<>>, val |-> <<>> ]

Init ==
    /\ args \in ArgsSet
    /\ pc = "new"
    /\ ctor_error = ""
    /\ clf = <<>>
    /\ cfg_reads = {}
    /\ training = TRUE
    /\ running = <<>>
    /\ batch = NoBatch
    /\ out = NoOut

\* MLP(model_config, dims, use_bn, use_relu, use_dropout, use_bias)
Construct ==
    /\ pc = "new"
    /\ LET r == MLP_init(args)
       IN  /\ pc' = r.status
           /\ ctor_error' = r.error
           /\ clf' = r.clf
           /\ cfg_reads' = r.reads
           /\ running' = IF r.status = "built"
                         THEN [k \in 1..(Len(args.dims) - 1) |-> 0]
                         ELSE <<>>
    /\ training' = TRUE
    /\ UNCHANGED << args, batch, out >>

\* block.forward(b), with the mask the Dropout layers would draw; calls are
\* synchronous, one at a time
Forward(b, mask) ==
    /\ pc = "built"
    /\ out.status = "none"
    /\ training => \A k \in DOMAIN running : running[k] < MaxTracked
    /\ LET r == ForwardOn(clf, b, training, mask, running)
       IN  /\ out' = [ status |-> r.status, error |-> r.error,
                       raised_by |-> r.raised_by, applied |-> r.applied,
                       shape |-> r.shape, val |-> r.val ]
           /\ running' = r.running
    /\ batch' = b
    /\ UNCHANGED << args, pc, ctor_error, clf, cfg_reads, training >>

\* the caller is done with the outcome of the latest call (return, line 76)
Release ==
    /\ out.status # "none"
    /\ batch' = NoBatch
    /\ out' = NoOut
    /\ UNCHANGED << args, pc, ctor_error, clf, cfg_reads, training, running >>

\* block.train()
Train ==
    /\ pc = "built"
    /\ training' = TRUE
    /\ UNCHANGED << args, pc, ctor_error, clf, cfg_reads, running, batch, out >>

\* block.eval()
Eval ==
    /\ pc = "built"
    /\ training' = FALSE
    /\ UNCHANGED << args, pc, ctor_error, clf, cfg_reads, running, batch, out >>

\* a mask is drawn only when a Dropout layer runs in training mode
MasksDrawn == IF training /\ args.use_dropout THEN Masks ELSE {0}

AnyForward ==
    \E s \in InputShapes, mask \in MasksDrawn : Forward(Tensor(s, <<>>), mask)

Next ==
    \/ Construct
    \/ AnyForward
    \/ Release
    \/ Train
    \/ Eval

Spec == Init /\ [][Next]_vars

\* construction alone
SpecBuild == Init /\ [][Construct]_vars

\* =================================================================== claims
Built == pc = "built"
Called == out.status # "none"

B2N(b) == IF b THEN 1 ELSE 0

Kinds(stack) == [i \in 1..Len(stack) |-> stack[i].kind]

IsLinear(l) == l.kind = "Linear"
Linears(stack) == SelectSeq(stack, IsLinear)

\* the kinds of one block, as the flags say
BlockKinds ==
    <<"Linear">>
    \o (IF args.use_bn THEN <<"BatchNorm1d">> ELSE <<>>)
    \o (IF args.use_relu THEN <<"ReLU">> ELSE <<>>)
    \o (IF args.use_dropout THEN <<"Dropout">> ELSE <<>>)

RECURSIVE Repeat(_, _)
Repeat(blk, n) == IF n = 0 THEN <<>> ELSE blk \o Repeat(blk, n - 1)

\* a shape without its axes of size 1, front to back
RECURSIVE DropOnes(_)
DropOnes(shape) ==
    IF shape = <<>> THEN <<>>
    ELSE IF Head(shape) = 1 THEN DropOnes(Tail(shape))
    ELSE <<Head(shape)>> \o DropOnes(Tail(shape))

\* the size of the feature (last) axis of a shape; 0 when it has no axis
FeatureWidth(shape) == IF shape = <<>> THEN 0 ELSE shape[Len(shape)]

\* a step that is a forward call
ForwardStep == out.status = "none" /\ out'.status # "none"

\* C1: for dims of length >= 2 and any flags, the stack is the block
\* [Linear, BatchNorm if use_bn, ReLU if use_relu, Dropout if use_dropout]
\* repeated once per width transition, in that order: it has
\* (len(dims)-1) * (1 + use_bn + use_relu + use_dropout) layers and no layer
\* of a kind whose flag is false.
C1_StackIsBlocks ==
    (Built /\ Len(args.dims) >= 2) =>
        /\ Kinds(clf) = Repeat(BlockKinds, Len(args.dims) - 1)
        /\ Len(clf) = (Len(args.dims) - 1)
                      * (1 + B2N(args.use_bn) + B2N(args.use_relu)
                           + B2N(args.use_dropout))
        /\ \A i \in 1..Len(clf) :
              /\ clf[i].kind = "BatchNorm1d" => args.use_bn
              /\ clf[i].kind = "ReLU" => args.use_relu
              /\ clf[i].kind = "Dropout" => args.use_dropout
              /\ clf[i].kind = "Linear" => clf[i].bias = args.use_bias

C1_Witness ==
    /\ Built
    /\ Len(args.dims) = 3
    /\ args.use_bn /\ args.use_relu /\ args.use_dropout
    /\ Len(clf) = 8

\* C2: the i-th linear layer has output width dims[i+1]; its input width is
\* dims[0] when use_relu is false and dims[i] when use_relu is true
\* (sequences here count from 1, so dims[0] is args.dims[1]).
C2_LinearWidths ==
    (Built /\ Len(args.dims) >= 2) =>
        /\ Len(Linears(clf)) = Len(args.dims) - 1
        /\ \A i \in 1..Len(Linears(clf)) :
              /\ Linears(clf)[i].out_features = args.dims[i + 1]
              /\ Linears(clf)[i].in_features =
                    IF args.use_relu THEN args.dims[i] ELSE args.dims[1]

C2_Witness ==
    /\ Built
    /\ ~args.use_relu
    /\ Len(args.dims) = 3
    /\ args.dims[2] # args.dims[1]
    /\ Linears(clf)[2].in_features = args.dims[1]
    /\ Linears(clf)[2].in_features # Linears(clf)[1].out_features

\* C3: for dims of length >= 2, any flags and a 4D input (N, C, 1, 1) with
\* N > 1 and C = dims[0], forward returns a tensor of shape (N, dims[-1]).
C3_OutputShape ==
    ( /\ Built /\ Called
      /\ Len(args.dims) >= 2
      /\ Len(batch.shape) = 4
      /\ batch.shape[1] > 1
      /\ batch.shape[2] = args.dims[1] ) =>
        /\ out.status = "ok"
        /\ out.shape = << batch.shape[1], args.dims[Len(args.dims)] >>

\* C3 on inputs with C >= 2, where the squeeze keeps the feature axis: the
\* same statement, which then fails only through last_dim staying at dims[0].
C3_OutputShape_WideInput ==
    ( /\ Built /\ Called
      /\ Len(args.dims) >= 2
      /\ args.dims[1] >= 2
      /\ Len(batch.shape) = 4
      /\ batch.shape[1] > 1
      /\ batch.shape[2] = args.dims[1] ) =>
        /\ out.status = "ok"
        /\ out.shape = << batch.shape[1], args.dims[Len(args.dims)] >>

\* C4: whenever forward returns a tensor, for a 2D or an N x C x 1 x 1 input,
\* the tensor is 2D.
C4_OutputIs2D ==
    (Built /\ out.status = "ok") => Len(out.shape) = 2

\* C4 on blocks with at least one layer and inputs with C >= 2: the same
\* statement, which then fails only through the batch axis of size 1.
C4_OutputIs2D_WithLayers ==
    ( /\ Built /\ out.status = "ok"
      /\ Len(args.dims) >= 2
      /\ batch.shape[2] >= 2 ) => Len(out.shape) = 2

C7_BatchNormAfterLinear ==
    (Built /\ args.use_bn /\ Len(args.dims) >= 2) =>
        /\ \A i \in 1..Len(clf) :
              clf[i].kind = "BatchNorm1d" =>
                 /\ i > 1
                 /\ clf[i - 1].kind = "Linear"
                 /\ clf[i].num_features = clf[i - 1].out_features
                 /\ clf[i].num_features =
                       args.dims[Len(Linears(SubSeq(clf, 1, i))) + 1]
                 /\ clf[i].eps = args.model_config.BATCHNORM_EPS
                 /\ clf[i].momentum = args.model_config.BATCHNORM_MOMENTUM
        /\ \A i \in 1..Len(clf) :
              clf[i].kind = "Linear" =>
                 i < Len(clf) /\ clf[i + 1].kind = "BatchNorm1d"
        /\ cfg_reads = {"BATCHNORM_EPS", "BATCHNORM_MOMENTUM"}

C7_Witness ==
    /\ Built
    /\ args.use_bn
    /\ ~args.use_relu
    /\ Len(args.dims) = 3
    /\ args.dims[1] # args.dims[2]
    /\ clf[4].kind = "BatchNorm1d"

\* C8: a forward call, succeeding or failing, in either mode, leaves the
\* layer stack and everything else of the block unchanged except the running
\* statistics of normalization layers, and those change only in training
\* mode: in evaluation mode a forward call changes no state of the block.
C8_ForwardFrame ==
    [][ ForwardStep =>
          /\ clf' = clf
          /\ training' = training
          /\ args' = args
          /\ pc' = pc
          /\ cfg_reads' = cfg_reads
          /\ DOMAIN running' = DOMAIN running
          /\ running' # running => (training /\ args.use_bn)
          /\ \A k \in DOMAIN running : running'[k] >= running[k] ]_vars

C8_Witness ==
    /\ Built /\ Called
    /\ ~training
    /\ args.use_bn
    /\ Len(args.dims) = 3
    /\ \E k \in DOMAIN running : running[k] > 0
    /\ \E i \in 1..Len(out.val) :
          out.val[i].op = "bn_running" /\ out.val[i].arg > 0

\* C9: if the feature width of the squeezed input differs from the first
\* linear layer's input width dims[0], forward fails with the error of that
\* linear layer: no tensor is returned, the error reaches the caller as
\* raised, and no later layer is applied.
C9_WidthMismatchRaises ==
    ( /\ Built /\ Called
      /\ Len(args.dims) >= 2
      /\ FeatureWidth(DropOnes(batch.shape)) # args.dims[1] ) =>
        /\ out.status = "error"
        /\ out.error = "RuntimeError"
        /\ out.raised_by = 1
        /\ clf[1].kind = "Linear"
        /\ out.applied = 0
        /\ out.shape = <<>> /\ out.val = <<>>

C9_Witness ==
    /\ Built /\ Called
    /\ Len(clf) >= 4
    /\ Len(DropOnes(batch.shape)) = 2
    /\ FeatureWidth(DropOnes(batch.shape)) # args.dims[1]
    /\ out.status = "error"

\* the stack __init__ builds from the same arguments but use_dropout=False
TwinClf == MLP_init([args EXCEPT !.use_dropout = FALSE]).clf

\* C10: with use_dropout the stack holds a dropout layer per linear layer,
\* and in evaluation mode forward returns the same output, or the same
\* error from the same layer, as the block built with the same arguments
\* and parameters but use_dropout=False.
C10_DropoutIsIdentityInEval ==
    [][ (ForwardStep /\ ~training /\ args.use_dropout) =>
          LET twin == ForwardOn(TwinClf, batch', FALSE, 0, running)
          IN  /\ out'.status = twin.status
              /\ out'.error = twin.error
              /\ out'.shape = twin.shape
              /\ out'.val = twin.val
              /\ out'.status = "error" =>
                    clf[out'.raised_by] = TwinClf[twin.raised_by]
              /\ Cardinality({i \in 1..Len(clf) : clf[i].kind = "Dropout"})
                    = Len(Linears(clf)) ]_vars

C10_Witness ==
    /\ Built /\ Called
    /\ ~training
    /\ args.use_dropout /\ args.use_bn /\ args.use_relu
    /\ Len(args.dims) = 3
    /\ out.status = "ok"
    /\ Len(out.val) = 6
    /\ \E i \in 1..Len(out.val) : out.val[i].op = "bn_running"

====
